---- MODULE Spec2Model ----
(***************************************************************************)
(* lognexus: the cache-clear timer (src/src/serverCache.js), the log       *)
(* retriever downloadS3Logs (src/unnamed/part_003, lines 363-459), the     *)
(* stream factory getStream (src/src/s3Stream.js), init (src/index.js)     *)
(* and the log shipper of the specification (sections 4.1 and 5).          *)
(*                                                                         *)
(* SpecCache    : initCacheClear / stopCacheClear / clearCache and the     *)
(*                host's interval timers.                                  *)
(* SpecRetrieve : sequential downloadS3Logs calls against one bucket and   *)
(*                one local directory, one step per await of the code.     *)
(* SpecStream   : getStream, resetStream and init calls in any order.      *)
(* SpecShared   : one init call and one downloadS3Logs call in one         *)
(*                process.                                                 *)
(* SpecShipper  : one shipper instance: writes, rotation timer, upload     *)
(*                completions, shutdown.                                   *)
(***************************************************************************)
EXTENDS Integers, Sequences, FiniteSets, TLC

\* ------------------------------------------------------------------ bounds
\* number of setInterval calls a behaviour may make
MaxTimers == 3
\* number of downloadS3Logs calls a behaviour may make
NumCalls == 2
\* number of objects the backend returns in one listing page (S3: 1000)
PageSize == 3
\* number of transient I/O failures (network, file system) a behaviour may see
MaxFaults == 1
\* number of S3StreamLogger instances a behaviour may construct
MaxStreams == 2
\* number of write calls a behaviour may make on the shipper
MaxWrites == 3
\* number of 512 KiB pieces writeFile writes the longest body in
MaxChunks == 2

VARIABLES
    \* ---- serverCache.js
    cacheInterval,  \* module variable: the stored handle, Null or a timer id
    timers,         \* the host's active interval timers (ids) running clearCache
    nextTimer,      \* number of timers created so far (the next id is nextTimer+1)
    lastOp,         \* history: the last serverCache operation
    prev,           \* history: [handle, timers] as they were before the last operation
    returned,       \* history: the value returned by the last initCacheClear
    stopped,        \* history: TRUE from a stopCacheClear until the next initCacheClear
    lateFire,       \* history: a timer fired clearCache while stopped
    cc,             \* history: what the last clearCache call did
    \* ---- downloadS3Logs
    bucket,         \* remote objects: key -> body, NoBody when the key is not stored
    disk,           \* local directory: file name -> content, "absent" when no file
    dirLevels,      \* how many leading directories of localDownloadDir exist
    pc,             \* per call: position of the async function
    contents,       \* per call: data.Contents of the listing, a sequence of keys
    idx,            \* per call: index in contents of the object being processed
    buffer,         \* per call: the downloaded body
    decompressedData, \* per call: the result of gunzip(buffer)
    result,         \* per call: "none", "ok" or the error thrown to the caller
    log,            \* per call: history of what the call did, in order
    disk0,          \* per call: history, the directory as it was when the call began
    blocks,         \* per path: the file's content, one entry per 512 KiB piece
    position,       \* per call: the pieces its writeFile has written (its file offset)
    faults,         \* number of transient failures injected so far
    used,           \* per call: history, the configuration the call resolved
    \* ---- s3Stream.js and index.js
    s3Stream,       \* module variable _s3Stream: the cached stream, NoStream for null
    nextStream,     \* number of S3StreamLogger instances constructed so far
    globalAwsCred,  \* global.awsCred
    globalAppType,  \* global.APP_TYPE
    globalAwsConfig, \* global.awsConfig
    procEnv,        \* process.env, as set when the process started
    gs,             \* history: what the last getStream call did
    ini,            \* history: what the last init call did
    \* ---- log shipper
    shState,        \* "ACCUMULATING", "CLOSING" (shutdown draining) or "CLOSED"
    active,         \* ActiveSegment.buffer: the chunks (indices of writes) it holds
    bytesWritten,   \* ActiveSegment.bytesWritten
    tasks,          \* the UploadTasks in seal order, resolved ones included
    errorLog,       \* what was reported to the error callback / log sink
    writes,         \* history: every write call, its size and whether accepted
    shOp,           \* history: the last shipper operation
    shBefore        \* history: what the shipper held before that operation

cacheVars == <<cacheInterval, timers, nextTimer, lastOp, prev, returned, stopped,
               lateFire, cc>>
fileVars == <<blocks, position>>
retrVars == <<bucket, disk, dirLevels, pc, contents, idx, buffer, decompressedData,
              result, log, disk0, faults, used, fileVars>>
streamVars == <<s3Stream, nextStream, globalAwsCred, globalAppType, globalAwsConfig,
                procEnv, gs, ini>>
shipVars == <<shState, active, bytesWritten, tasks, errorLog, writes, shOp, shBefore>>
vars == <<cacheVars, retrVars, streamVars, shipVars>>

Null == 0

\* ================================================================ serverCache
\* Outcomes of the host functions clearCache calls: global.gc may be absent,
\* return, or throw; console.log and console.error may return or throw (both
\* are the host's, and index.js replaces them with functions that write to the
\* logger).
GcStates == {"absent", "ok", "throws"}
LogStates == {"ok", "throws"}
ErrStates == {"ok", "throws"}

NoClear == [by |-> "none", gc |-> "absent", lg |-> "ok", er |-> "ok", gcCalled |-> FALSE,
            logged |-> FALSE, errCalled |-> FALSE, errLogged |-> FALSE, raised |-> FALSE]

\* serverCache.js:7-24. try { if (global.gc) global.gc(); console.log(..) }
\* catch (error) { console.error(..) }: console.error runs in the handler,
\* outside the try block, so what it throws leaves clearCache.
clearCache(by, gc, lg, er) ==
    LET gcThrew == gc = "throws"
        logThrew == ~gcThrew /\ lg = "throws"
        caught == gcThrew \/ logThrew
    IN [by |-> by, gc |-> gc, lg |-> lg, er |-> er,
        gcCalled |-> gc # "absent",
        logged |-> ~gcThrew /\ ~logThrew,
        errCalled |-> caught,
        errLogged |-> caught /\ er = "ok",
        raised |-> caught /\ er = "throws"]

Snapshot == [handle |-> cacheInterval, timers |-> timers, op |-> lastOp]

\* initCacheClear without the clearInterval of the previous handle.
initCacheClearNoCancel ==
    /\ nextTimer < MaxTimers
    /\ nextTimer' = nextTimer + 1
    /\ timers' = timers \cup {nextTimer + 1}
    /\ cacheInterval' = nextTimer + 1
    /\ returned' = nextTimer + 1
    /\ prev' = Snapshot
    /\ lastOp' = "init"
    /\ stopped' = FALSE
    /\ UNCHANGED <<lateFire, cc>>

\* serverCache.js:31-44. if (cacheInterval) clearInterval(cacheInterval);
\* cacheInterval = setInterval(clearCache, interval); return cacheInterval
initCacheClear ==
    /\ nextTimer < MaxTimers
    /\ nextTimer' = nextTimer + 1
    /\ timers' = (IF cacheInterval # Null THEN timers \ {cacheInterval} ELSE timers)
                    \cup {nextTimer + 1}
    /\ cacheInterval' = nextTimer + 1
    /\ returned' = nextTimer + 1
    /\ prev' = Snapshot
    /\ lastOp' = "init"
    /\ stopped' = FALSE
    /\ UNCHANGED <<lateFire, cc>>

\* stopCacheClear forgetting the handle without cancelling the timer.
stopCacheClearNoCancel ==
    /\ cacheInterval' = Null
    /\ UNCHANGED timers
    /\ prev' = Snapshot
    /\ lastOp' = "stop"
    /\ stopped' = TRUE
    /\ UNCHANGED <<nextTimer, returned, lateFire, cc>>

\* serverCache.js:49-54. if (cacheInterval) { clearInterval(cacheInterval);
\* cacheInterval = null }
stopCacheClear ==
    /\ IF cacheInterval # Null
       THEN /\ timers' = timers \ {cacheInterval}
            /\ cacheInterval' = Null
       ELSE UNCHANGED <<timers, cacheInterval>>
    /\ prev' = Snapshot
    /\ lastOp' = "stop"
    /\ stopped' = TRUE
    /\ UNCHANGED <<nextTimer, returned, lateFire, cc>>

\* The host fires an active interval timer: its callback clearCache runs.
TimerFire ==
    \E t \in timers, gc \in GcStates, lg \in LogStates, er \in ErrStates :
        /\ cc' = clearCache("timer", gc, lg, er)
        /\ lateFire' = (lateFire \/ stopped)
        /\ prev' = Snapshot
        /\ lastOp' = "fire"
        /\ UNCHANGED <<cacheInterval, timers, nextTimer, returned, stopped>>

\* A caller invokes the exported clearCache directly.
CallClearCache ==
    \E gc \in GcStates, lg \in LogStates, er \in ErrStates :
        /\ cc' = clearCache("caller", gc, lg, er)
        /\ prev' = Snapshot
        /\ lastOp' = "clear"
        /\ UNCHANGED <<cacheInterval, timers, nextTimer, returned, stopped, lateFire>>

InitCacheVars ==
    /\ cacheInterval = Null
    /\ timers = {}
    /\ nextTimer = 0
    /\ lastOp = "none"
    /\ prev = [handle |-> Null, timers |-> {}, op |-> "none"]
    /\ returned = Null
    /\ stopped = FALSE
    /\ lateFire = FALSE
    /\ cc = NoClear


\* ======================================================= s3Stream.js, index.js
\* JavaScript's a || b on strings: undefined and "" are falsy (both are "").
orElse(a, b) == IF a = "" THEN b ELSE a

\* global.awsConfig when nothing assigned it (undefined).
NoAwsConfig == [set |-> FALSE, region |-> "", accessKeyId |-> "", secretAccessKey |-> "",
                bucketName |-> ""]

\* global.awsConfig as a host may assign it: region and bucket only.
HostAwsConfig == [set |-> TRUE, region |-> "host-region", accessKeyId |-> "",
                  secretAccessKey |-> "", bucketName |-> "host-bucket"]

\* JavaScript objects are functions from their own keys to values: a key that
\* is not in the DOMAIN is absent, undefined string values are "".
EmptyObj == [k \in {} |-> ""]

\* { ...d, ...o }
Spread(d, o) == [k \in DOMAIN d \cup DOMAIN o |-> IF k \in DOMAIN o THEN o[k] ELSE d[k]]

\* o[k] || {} for an object-valued key
objOrEmpty(o, k) == IF k \in DOMAIN o THEN o[k] ELSE EmptyObj

\* process.env, the variables the code reads; an unset variable is "".
FullEnv == [region |-> "env-region", accessKeyId |-> "env-id",
            secretAccessKey |-> "env-secret", bucket |-> "env-bucket",
            appType |-> "staging", folder |-> "", nameFormat |-> "", enableS3 |-> ""]
NoEnv == [region |-> "", accessKeyId |-> "", secretAccessKey |-> "", bucket |-> "",
          appType |-> "", folder |-> "", nameFormat |-> "", enableS3 |-> ""]
ProcEnvs == {FullEnv,
             [FullEnv EXCEPT !.secretAccessKey = ""],
             [FullEnv EXCEPT !.folder = "env-folder/", !.enableS3 = "false"],
             NoEnv}

\* A stream instance: its identity and the configuration it was constructed with.
StreamFields == {"bucket", "access_key_id", "secret_access_key", "region", "folder",
                 "name_format"}
NoMerged == [bucket |-> "", access_key_id |-> "", secret_access_key |-> "",
             region |-> "", folder |-> "", name_format |-> ""]
NoStream == [id |-> Null, cfg |-> NoMerged]
NoCred == [set |-> FALSE, awsS3BucketId |-> "", awsBucketNameForLogs |-> "",
           awsS3BucketSecret |-> "", region |-> ""]

\* s3Stream.js:25-50. The defaults getStream builds from global.awsCred,
\* global.APP_TYPE and the environment.
defaultConfig(gCred, gApp, env) ==
    LET awsCred == IF gCred.set THEN gCred
                   ELSE [set |-> TRUE,
                         awsS3BucketId |-> env.accessKeyId,
                         awsBucketNameForLogs |-> orElse(env.bucket, "logs-bucket"),
                         awsS3BucketSecret |-> env.secretAccessKey,
                         region |-> orElse(env.region, "us-east-1")]
        APP_TYPE == orElse(gApp, orElse(env.appType, "development"))
    IN [bucket |-> awsCred.awsBucketNameForLogs,
        access_key_id |-> awsCred.awsS3BucketId,
        secret_access_key |-> awsCred.awsS3BucketSecret,
        region |-> orElse(awsCred.region, orElse(env.region, "ap-south-1")),
        folder |-> orElse(env.folder, "logs/" \o APP_TYPE \o "/"),
        name_format |-> orElse(env.nameFormat,
                               "%Y-%m-%d-%H-%M-" \o APP_TYPE \o "-error.log")]

\* s3Stream.js:52-55. mergedConfig, restricted to the fields of a stream.
mergedConfig(gCred, gApp, env, config) ==
    LET m == Spread(defaultConfig(gCred, gApp, env), config)
    IN [k \in StreamFields |-> m[k]]

\* getStream forgetting the cached stream when it fails.
getStreamDropsCache(cache, nxt, gCred, gApp, env, config, ctorThrows) ==
    LET merged == mergedConfig(gCred, gApp, env, config)
        base == [ret |-> NoStream, cache |-> NoStream, next |-> nxt,
                 constructed |-> FALSE, warned |-> "", errLogged |-> FALSE,
                 threw |-> FALSE, merged |-> merged]
    IN IF cache.id # Null /\ DOMAIN config = {}
       THEN [base EXCEPT !.ret = cache, !.cache = cache, !.merged = cache.cfg]
       ELSE IF merged.bucket = ""
       THEN [base EXCEPT !.warned = "bucket"]
       ELSE IF merged.access_key_id = "" \/ merged.secret_access_key = ""
       THEN [base EXCEPT !.warned = "credentials"]
       ELSE IF ctorThrows
       THEN [base EXCEPT !.errLogged = TRUE]
       ELSE [base EXCEPT !.ret = [id |-> nxt + 1, cfg |-> merged],
                         !.cache = [id |-> nxt + 1, cfg |-> merged],
                         !.next = nxt + 1, !.constructed = TRUE]

\* s3Stream.js:20-76. getStream(config) with _s3Stream = cache; nxt instances
\* were constructed before; ctorThrows: new S3StreamLogger(..) throws.
getStream(cache, nxt, gCred, gApp, env, config, ctorThrows) ==
    LET forceRefresh == "forceRefresh" \in DOMAIN config /\ config.forceRefresh = TRUE
        merged == mergedConfig(gCred, gApp, env, config)
        base == [ret |-> NoStream, cache |-> cache, next |-> nxt, constructed |-> FALSE,
                 warned |-> "", errLogged |-> FALSE, threw |-> FALSE, merged |-> merged]
    IN IF cache.id # Null /\ DOMAIN config = {} /\ ~forceRefresh
       THEN [base EXCEPT !.ret = cache, !.merged = cache.cfg]
       ELSE IF merged.bucket = ""
       THEN [base EXCEPT !.warned = "bucket"]
       ELSE IF merged.access_key_id = "" \/ merged.secret_access_key = ""
       THEN [base EXCEPT !.warned = "credentials"]
       ELSE IF ctorThrows
       THEN [base EXCEPT !.errLogged = TRUE]
       ELSE [base EXCEPT !.ret = [id |-> nxt + 1, cfg |-> merged],
                         !.cache = [id |-> nxt + 1, cfg |-> merged],
                         !.next = nxt + 1,
                         !.constructed = TRUE]

\* The configurations a caller passes to getStream.
Configs == <<EmptyObj,
             [forceRefresh |-> TRUE],
             [folder |-> "custom/"],
             [bucket |-> ""],
             [secret_access_key |-> ""],
             [bucket |-> "b2", access_key_id |-> "id2", secret_access_key |-> "secret2"]>>

NoGet == [called |-> FALSE, byInit |-> FALSE, cfg |-> 0, before |-> NoStream,
          dropped |-> NoStream,
          out |-> getStream(NoStream, 0, NoCred, "", NoEnv, EmptyObj, TRUE)]

\* What a getStream call leaves in the history.
\* (dropped: the stream a resetStream right before the call took out of the
\* cache, NoStream when the call does not follow a resetStream)
Got(byInit, cfg, before, out) ==
    [called |-> TRUE, byInit |-> byInit, cfg |-> cfg, before |-> before, out |-> out,
     dropped |-> IF ~gs.called /\ ~ini.called THEN gs.dropped ELSE NoStream]

\* No init call (yet, or since the last other operation).
NoInit == [called |-> FALSE, opt |-> 0, threw |-> FALSE,
           s3Stream |-> NoStream, getStreamCalled |-> FALSE,
           cacheBefore |-> NoStream, nextBefore |-> 0,
           logger |-> [created |-> FALSE, s3Transport |-> FALSE], morgan |-> FALSE,
           appType |-> "", folder |-> "", nameFormat |-> "", enableS3Logging |-> FALSE,
           timer |-> FALSE, handleBefore |-> Null, timersBefore |-> {}]

\* A caller invokes getStream(config).
GetStreamCall ==
    \E n \in 1..Len(Configs), ctorThrows \in BOOLEAN :
        LET out == getStream(s3Stream, nextStream, globalAwsCred, globalAppType, procEnv,
                             Configs[n], ctorThrows)
        IN /\ nextStream < MaxStreams
           /\ s3Stream' = out.cache
           /\ nextStream' = out.next
           /\ gs' = Got(FALSE, n, s3Stream, out)
           /\ ini' = NoInit
           /\ UNCHANGED <<globalAwsCred, globalAppType, globalAwsConfig, procEnv>>

\* resetStream leaving the cache as it is.
resetStreamKeeps ==
    /\ UNCHANGED s3Stream
    /\ gs' = [NoGet EXCEPT !.dropped = s3Stream]
    /\ ini' = NoInit
    /\ UNCHANGED <<nextStream, globalAwsCred, globalAppType, globalAwsConfig, procEnv>>

\* s3Stream.js:78-80. _s3Stream = null
resetStream ==
    /\ s3Stream' = NoStream
    /\ gs' = [NoGet EXCEPT !.dropped = s3Stream]
    /\ ini' = NoInit
    /\ UNCHANGED <<nextStream, globalAwsCred, globalAppType, globalAwsConfig, procEnv>>

\* index.js:48. The default cacheInterval, three hours in milliseconds.
DefaultCacheInterval == 3 * 60 * 60 * 1000

ExplicitAws == [bucketName |-> "cfg-bucket", accessKeyId |-> "cfg-id",
                secretAccessKey |-> "cfg-secret", region |-> "cfg-region"]

\* The options a caller passes to init.
InitOptions == <<EmptyObj,
                 [awsConfig |-> ExplicitAws],
                 [awsConfig |-> ExplicitAws, appType |-> "api"],
                 [appType |-> "api", cacheInterval |-> 0],
                 [awsConfig |-> ExplicitAws, enableS3Logging |-> FALSE],
                 [awsConfig |-> [bucketName |-> ""]],
                 [awsConfig |-> [secretAccessKey |-> ""], cacheInterval |-> 1000],
                 [awsConfig |-> ExplicitAws, appType |-> "api",
                  s3Config |-> [folder |-> "custom/"]]>>

\* index.js:37-78. The merged config of init(options), the fields that matter.
initConfig(options, env) ==
    LET envApp == orElse(env.appType, "development")
        defaultAws == [bucketName |-> orElse(env.bucket, "logs-bucket"),
                       accessKeyId |-> env.accessKeyId,
                       secretAccessKey |-> env.secretAccessKey,
                       region |-> orElse(env.region, "us-east-1")]
        defaultS3 == [folder |-> orElse(env.folder, "logs/" \o envApp \o "/"),
                      nameFormat |-> orElse(env.nameFormat,
                                            "%Y-%m-%d-%H-%M-" \o envApp \o "-error.log")]
    IN [awsConfig |-> Spread(defaultAws, objOrEmpty(options, "awsConfig")),
        s3Config |-> Spread(defaultS3, objOrEmpty(options, "s3Config")),
        appType |-> IF "appType" \in DOMAIN options THEN options.appType ELSE envApp,
        cacheInterval |-> IF "cacheInterval" \in DOMAIN options
                          THEN options.cacheInterval ELSE DefaultCacheInterval,
        enableS3Logging |-> IF "enableS3Logging" \in DOMAIN options
                            THEN options.enableS3Logging ELSE env.enableS3 # "false"]

\* index.js:95-106. The config init hands to getStream.
s3StreamConfig(config) ==
    [bucket |-> config.awsConfig.bucketName,
     access_key_id |-> config.awsConfig.accessKeyId,
     secret_access_key |-> config.awsConfig.secretAccessKey,
     region |-> config.awsConfig.region,
     folder |-> config.s3Config.folder,
     name_format |-> config.s3Config.nameFormat]

\* part_003:66-125 (winstonLogger.createLogger): the S3 transport is added
\* only when enableS3Logging && s3Stream.
createLogger(enableS3Logging, s3LogStream) ==
    [created |-> TRUE, s3Transport |-> enableS3Logging /\ s3LogStream.id # Null]

\* init starting the timer whatever the interval.
startsTimerAlways(interval) == TRUE

\* index.js:80. if (config.cacheInterval): 0 stands for every falsy interval.
startsTimer(interval) == interval # 0

\* init asking for the stream whether or not S3 logging is enabled.
getLogStreamAlways(enableS3Logging, cache, nxt, gCred, gApp, env, config, ctorThrows) ==
    [called |-> TRUE,
     out |-> getStream(cache, nxt, gCred, gApp, env, config, ctorThrows)]

\* index.js:108-112. let s3LogStream = null; if (config.enableS3Logging)
\* s3LogStream = s3Stream.getStream(s3StreamConfig)
getLogStream(enableS3Logging, cache, nxt, gCred, gApp, env, config, ctorThrows) ==
    IF enableS3Logging
    THEN [called |-> TRUE,
          out |-> getStream(cache, nxt, gCred, gApp, env, config, ctorThrows)]
    ELSE [called |-> FALSE,
          out |-> [ret |-> NoStream, cache |-> cache, next |-> nxt,
                   constructed |-> FALSE, warned |-> "", errLogged |-> FALSE,
                   threw |-> FALSE, merged |-> NoMerged]]

\* index.js:36-133. init(options): merge, start the cache-clear timer, set the
\* globals, get the stream, create the logger and the middleware.
init ==
    \E o \in 1..Len(InitOptions), ctorThrows \in BOOLEAN :
        LET config == initConfig(InitOptions[o], procEnv)
            cred == [set |-> TRUE,
                     awsS3BucketId |-> config.awsConfig.accessKeyId,
                     awsBucketNameForLogs |-> config.awsConfig.bucketName,
                     awsS3BucketSecret |-> config.awsConfig.secretAccessKey,
                     region |-> config.awsConfig.region]
            r == getLogStream(config.enableS3Logging, s3Stream, nextStream, cred,
                              config.appType, procEnv, s3StreamConfig(config), ctorThrows)
            s3LogStream == r.out.ret
        IN /\ nextStream < MaxStreams
           /\ IF startsTimer(config.cacheInterval)
              THEN initCacheClear
              ELSE UNCHANGED cacheVars
           /\ globalAppType' = config.appType
           /\ globalAwsCred' = cred
           /\ s3Stream' = r.out.cache
           /\ nextStream' = r.out.next
           /\ gs' = IF r.called THEN Got(TRUE, 0, s3Stream, r.out) ELSE NoGet
           /\ ini' = [called |-> TRUE, opt |-> o, threw |-> FALSE,
                      s3Stream |-> s3LogStream,
                      getStreamCalled |-> r.called,
                      cacheBefore |-> s3Stream, nextBefore |-> nextStream,
                      logger |-> createLogger(config.enableS3Logging, s3LogStream),
                      morgan |-> TRUE,
                      appType |-> config.appType,
                      folder |-> config.s3Config.folder,
                      nameFormat |-> config.s3Config.nameFormat,
                      enableS3Logging |-> config.enableS3Logging,
                      timer |-> startsTimer(config.cacheInterval),
                      handleBefore |-> cacheInterval, timersBefore |-> timers]
           /\ UNCHANGED <<globalAwsConfig, procEnv>>

InitStreamVars ==
    /\ s3Stream = NoStream
    /\ nextStream = 0
    /\ globalAwsCred = NoCred
    /\ globalAppType = ""
    /\ gs = NoGet
    /\ ini = NoInit

\* ============================================================ downloadS3Logs
\* Object keys are paths, modelled as their sequences of components; KeyOrder
\* is the order in which the backend lists them (by key).
K1 == <<"logs", "svc", "a", "x.log.gz">>
K2 == <<"logs", "svc", "b", "x.log.gz">>
K3 == <<"logs", "svc", "y.log.gz">>
K4 == <<"logs", "svc", "z.log.gz">>
KeyOrder == <<K1, K2, K3, K4>>
Keys == {KeyOrder[n] : n \in 1..Len(KeyOrder)}
NoKey == <<>>

\* The log text each object carries (distinct per object).
DataOf(k) == CASE k = K1 -> "A" [] k = K2 -> "B" [] k = K3 -> "Y" [] OTHER -> "Z"

\* Bodies: a gzip stream of some data, the data uploaded as they are (a
\* shipper with compress = false), or a damaged gzip stream.
NoBody == [kind |-> "none", data |-> ""]
gzip(d) == [kind |-> "gzip", data |-> d]
plain(d) == [kind |-> "plain", data |-> d]
corrupt(d) == [kind |-> "corrupt", data |-> d]
BodiesOf(k) == {NoBody, gzip(DataOf(k)), plain(DataOf(k)), corrupt(DataOf(k))}

\* part_003:373,446. zlib.gunzip: the data of a gzip stream, an error for any
\* other input.
gunzip(b) ==
    IF b.kind = "gzip" THEN [ok |-> TRUE, data |-> b.data] ELSE [ok |-> FALSE, data |-> ""]

\* part_003:447. fs.promises.writeFile writes the data in pieces of 512 KiB, one
\* write and one await per piece: the pieces a body is written in. The body of
\* the third key is longer than one piece, the others fit in one.
ChunksOf(data) == IF data = "Y" THEN MaxChunks ELSE 1

\* One piece of a file: piece n of some data, or the zero bytes of a hole.
Chunk(data, n) == [of |-> data, n |-> n]
Hole == [of |-> "", n |-> 0]

\* A file that was in the directory before any call: one piece of other content.
OldFile == <<Chunk("old", 1)>>

\* The file holding the whole of the data.
wholeFile(data) == [n \in 1..ChunksOf(data) |-> Chunk(data, n)]

\* part_003:447. One write of writeFile through its own file handle: the piece
\* goes to the handle's offset, whatever length the file has by now; a file
\* shorter than the offset is filled with zero bytes up to it.
writeAt(f, n, ch) ==
    [m \in 1..(IF Len(f) > n THEN Len(f) ELSE n) |->
        IF m = n THEN ch ELSE IF m <= Len(f) THEN f[m] ELSE Hole]

\* What a reader finds in a file made of the pieces f: the data it holds
\* completely, the content it had before, or a partial file.
contentOf(f) ==
    IF f = OldFile THEN "old"
    ELSE IF \E k \in Keys : f = wholeFile(DataOf(k))
         THEN (CHOOSE d \in {DataOf(k) : k \in Keys} : f = wholeFile(d))
         ELSE "partial"

\* Arguments and environment a call may be given.
ThePrefix == "logs/svc/"
TheDir == "./out/logs"
\* The directories of TheDir below the working directory: ./out, ./out/logs.
DirDepth == 2
Args == {[s3Prefix |-> ThePrefix, localDownloadDir |-> TheDir],
         [s3Prefix |-> "", localDownloadDir |-> TheDir],
         [s3Prefix |-> ThePrefix, localDownloadDir |-> ""]}
Envs == {FullEnv} \cup {[FullEnv EXCEPT ![f] = ""] :
                          f \in {"region", "accessKeyId", "secretAccessKey", "bucket"}}

\* part_003:424. path.basename(key): the last component of the key.
basename(key) == key[Len(key)]

\* part_003:425-428. path.join(localDownloadDir, baseName + ".decompressed")
decompressedPath(dir, key) == <<dir, basename(key) \o ".decompressed">>

Paths == {<<TheDir, k[Len(k)] \o ".decompressed">> : k \in Keys}

\* The existence test always answering "no such file".
existsSyncNever(d, path) == FALSE

\* The existence test with its sense inverted.
existsSyncInverted(d, path) == d[path] = "absent"

\* part_003:430. fs.existsSync(decompressedPath)
existsSync(d, path) == d[path] # "absent"

\* What the directory holds for an object: the file named after the key's last
\* component plus ".decompressed" (the observer used by the properties).
FileOf(k) == <<TheDir, k[Len(k)] \o ".decompressed">>

Ev(ev, key, was, msg) == [ev |-> ev, key |-> key, was |-> was, msg |-> msg]

Calls == 1..NumCalls

RECURSIVE selectSeq(_, _, _)
selectSeq(s, n, keep) ==
    IF n > Len(s) THEN <<>>
    ELSE (IF s[n] \in keep THEN <<s[n]>> ELSE <<>>) \o selectSeq(s, n + 1, keep)

\* part_003:412-416. One ListObjectsV2 request without continuation token: the
\* backend answers with the first page of the stored keys, in key order.
listObjectsV2(b) ==
    LET all == selectSeq(KeyOrder, 1, {k \in Keys : b[k] # NoBody})
    IN SubSeq(all, 1, IF Len(all) < PageSize THEN Len(all) ELSE PageSize)

\* part_003:430-433. The objects skipped in one synchronous run of the loop,
\* from position i on, given the directory d.
RECURSIVE skipRun(_, _, _)
skipRun(list, i, d) ==
    IF i <= Len(list) /\ existsSync(d, decompressedPath(TheDir, list[i]))
    THEN <<Ev("skip", list[i], d[FileOf(list[i])], "")>> \o skipRun(list, i + 1, d)
    ELSE <<>>

\* part_003:422-438. The for-loop from position i up to its next await (the
\* GetObject request of the first object with no decompressed file) or to the
\* end of the function.
loopFrom(c, list, i, d, lg) ==
    LET sk == skipRun(list, i, d)
        j == i + Len(sk)
    IN IF j > Len(list)
       THEN /\ pc' = [pc EXCEPT ![c] = "done"]
            /\ result' = [result EXCEPT ![c] = "ok"]
            /\ idx' = [idx EXCEPT ![c] = j]
            /\ log' = [log EXCEPT ![c] = lg \o sk]
       ELSE /\ pc' = [pc EXCEPT ![c] = "getting"]
            /\ result' = result
            /\ idx' = [idx EXCEPT ![c] = j]
            /\ log' = [log EXCEPT ![c] =
                          lg \o sk \o <<Ev("get", list[j], d[FileOf(list[j])], "")>>]

\* The per-object catch missing: the failure reaches the outer catch and the
\* call rejects.
catchObjectRethrow(c, msg, d) ==
    /\ pc' = [pc EXCEPT ![c] = "done"]
    /\ result' = [result EXCEPT ![c] = "object_failed"]
    /\ log' = [log EXCEPT ![c] = @ \o <<Ev("error", contents[c][idx[c]], "", msg)>>]
    /\ UNCHANGED idx

\* part_003:449-451. catch (err) { console.warn(`Failed to decompress or
\* download ${key}:`, err.message) }, then the loop goes on with the next object.
catchObject(c, msg, d) ==
    loopFrom(c, contents[c], idx[c] + 1, d,
             log[c] \o <<Ev("warn", contents[c][idx[c]], "", msg)>>)

\* The outer catch logging the error without throwing it again.
outerCatchSwallow(c, err) ==
    /\ pc' = [pc EXCEPT ![c] = "done"]
    /\ result' = [result EXCEPT ![c] = "ok"]
    /\ log' = [log EXCEPT ![c] = @ \o <<Ev("error", NoKey, "", err)>>]

\* part_003:453-456. catch (err) { console.error(..); throw err }
outerCatch(c, err) ==
    /\ pc' = [pc EXCEPT ![c] = "done"]
    /\ result' = [result EXCEPT ![c] = err]
    /\ log' = [log EXCEPT ![c] = @ \o <<Ev("error", NoKey, "", err)>>]

\* part_003:395-400. global.awsConfig?.x || process.env.X, field by field.
resolveConfig(g, e) ==
    [region |-> orElse(IF g.set THEN g.region ELSE "", e.region),
     accessKeyId |-> orElse(IF g.set THEN g.accessKeyId ELSE "", e.accessKeyId),
     secretAccessKey |-> orElse(IF g.set THEN g.secretAccessKey ELSE "", e.secretAccessKey),
     bucket |-> orElse(IF g.set THEN g.bucketName ELSE "", e.bucket)]

\* A call that has not resolved a configuration (yet).
NoArgs == [s3Prefix |-> "", localDownloadDir |-> ""]
NoUse == [set |-> FALSE, args |-> NoArgs,
          config |-> [region |-> "", accessKeyId |-> "", secretAccessKey |-> "",
                      bucket |-> ""],
          initOpt |-> 0, initStream |-> NoStream]

\* The configuration check left out: nothing is ever missing.
missingConfigNever(r) == FALSE

\* part_003:402. !region || !accessKeyId || !secretAccessKey || !bucket
missingConfig(r) ==
    r.region = "" \/ r.accessKeyId = "" \/ r.secretAccessKey = "" \/ r.bucket = ""

\* part_003:385. !s3Prefix || !localDownloadDir
missingArgs(a) == a.s3Prefix = "" \/ a.localDownloadDir = ""

\* part_003:391. fs.existsSync(localDownloadDir)
dirExistsSync(levels) == levels = DirDepth

\* fs.mkdirSync(localDownloadDir) without the recursive option: ENOENT when the
\* parent directory is absent.
mkdirSyncFlat(levels) ==
    IF levels = DirDepth - 1 THEN [ok |-> TRUE, levels |-> DirDepth]
    ELSE [ok |-> FALSE, levels |-> levels]

\* part_003:392. fs.mkdirSync(localDownloadDir, { recursive: true }): the
\* directory and every missing parent.
mkdirSync(levels) == [ok |-> TRUE, levels |-> DirDepth]

\* part_003:384-416. The call up to its first await: argument check, mkdir,
\* configuration check, ListObjectsV2 sent.
Start(c) ==
    \E a \in Args :
        /\ pc[c] = "idle"
        /\ disk0' = [disk0 EXCEPT ![c] = disk]
        /\ IF missingArgs(a)
           THEN /\ pc' = [pc EXCEPT ![c] = "done"]
                /\ result' = [result EXCEPT ![c] = "args"]
                /\ used' = [used EXCEPT ![c] = [NoUse EXCEPT !.args = a]]
                /\ UNCHANGED <<dirLevels, log>>
           ELSE LET made == IF dirExistsSync(dirLevels)
                            THEN [ok |-> TRUE, levels |-> dirLevels]
                            ELSE mkdirSync(dirLevels)
                    config == resolveConfig(globalAwsConfig, procEnv)
                IN /\ dirLevels' = made.levels
                   /\ IF ~made.ok
                      THEN /\ pc' = [pc EXCEPT ![c] = "done"]
                           /\ result' = [result EXCEPT ![c] = "mkdir"]
                           /\ used' = [used EXCEPT ![c] = [NoUse EXCEPT !.args = a]]
                           /\ UNCHANGED log
                      ELSE /\ used' = [used EXCEPT ![c] =
                                          [set |-> TRUE, args |-> a, config |-> config,
                                           initOpt |-> ini.opt,
                                           initStream |-> ini.s3Stream]]
                           /\ IF missingConfig(config)
                              THEN /\ pc' = [pc EXCEPT ![c] = "done"]
                                   /\ result' = [result EXCEPT ![c] = "config"]
                                   /\ UNCHANGED log
                              ELSE /\ pc' = [pc EXCEPT ![c] = "listing"]
                                   /\ log' = [log EXCEPT ![c] =
                                                 @ \o <<Ev("list", NoKey, "", "")>>]
                                   /\ UNCHANGED result
        /\ UNCHANGED <<bucket, disk, contents, idx, buffer, decompressedData, faults,
                       fileVars>>

\* part_003:416,453-456. The listing request fails (network, throttling).
ListFail(c) ==
    /\ UNCHANGED fileVars
    /\ pc[c] = "listing"
    /\ faults < MaxFaults
    /\ faults' = faults + 1
    /\ outerCatch(c, "list_failed")
    /\ UNCHANGED <<used, bucket, disk, dirLevels, contents, idx, buffer, decompressedData, disk0>>

\* part_003:416-438. The listing request is answered.
ListOk(c) ==
    /\ UNCHANGED fileVars
    /\ pc[c] = "listing"
    /\ LET page == listObjectsV2(bucket)
       IN IF Len(page) = 0
          THEN /\ outerCatch(c, "not_found")
               /\ UNCHANGED <<contents, idx>>
          ELSE /\ contents' = [contents EXCEPT ![c] = page]
               /\ loopFrom(c, page, 1, disk, log[c])
    /\ UNCHANGED <<used, bucket, disk, dirLevels, buffer, decompressedData, disk0, faults>>

\* part_003:438. await S3.send(getCommand) rejects.
GetFail(c) ==
    /\ UNCHANGED fileVars
    /\ pc[c] = "getting"
    /\ faults < MaxFaults
    /\ faults' = faults + 1
    /\ catchObject(c, "network", disk)
    /\ UNCHANGED <<used, bucket, disk, dirLevels, contents, buffer, decompressedData, disk0>>

\* part_003:438. await S3.send(getCommand) resolves; the call suspends again at
\* for await (const chunk of response.Body). The chunks that follow change only
\* the local array chunks: those continuations leave every variable as it is.
GetOk(c) ==
    /\ UNCHANGED fileVars
    /\ pc[c] = "getting"
    /\ pc' = [pc EXCEPT ![c] = "body"]
    /\ UNCHANGED <<used, bucket, disk, dirLevels, contents, idx, buffer, decompressedData,
                   result, log, disk0, faults>>

\* part_003:441-443. The body stream rejects before its end.
BodyFail(c) ==
    /\ UNCHANGED fileVars
    /\ pc[c] = "body"
    /\ faults < MaxFaults
    /\ faults' = faults + 1
    /\ catchObject(c, "network", disk)
    /\ UNCHANGED <<used, bucket, disk, dirLevels, contents, buffer, decompressedData, disk0>>

\* part_003:441-446. The body stream ends: Buffer.concat(chunks), and
\* gunzip(buffer) is started.
BodyEnd(c) ==
    /\ UNCHANGED fileVars
    /\ pc[c] = "body"
    /\ buffer' = [buffer EXCEPT ![c] = bucket[contents[c][idx[c]]]]
    /\ pc' = [pc EXCEPT ![c] = "gunzip"]
    /\ UNCHANGED <<used, bucket, disk, dirLevels, contents, idx, decompressedData, result, log,
                   disk0, faults>>

\* part_003:446-447. gunzip settles: writeFile is started, or the error is caught.
Gunzip(c) ==
    /\ UNCHANGED fileVars
    /\ pc[c] = "gunzip"
    /\ LET r == gunzip(buffer[c])
       IN IF r.ok
          THEN /\ decompressedData' = [decompressedData EXCEPT ![c] = r.data]
               /\ pc' = [pc EXCEPT ![c] = "write"]
               /\ UNCHANGED <<idx, result, log>>
          ELSE /\ catchObject(c, "gunzip", disk)
               /\ UNCHANGED decompressedData
    /\ UNCHANGED <<used, bucket, disk, dirLevels, contents, buffer, disk0, faults>>

\* part_003:447. writeFile cannot open the file: nothing is created.
WriteOpenFail(c) ==
    /\ UNCHANGED fileVars
    /\ pc[c] = "write"
    /\ faults < MaxFaults
    /\ faults' = faults + 1
    /\ catchObject(c, "fs", disk)
    /\ UNCHANGED <<used, bucket, disk, dirLevels, contents, buffer, decompressedData, disk0>>

\* part_003:447. writeFile opens the file with flag 'w': it exists and is
\* empty, whatever it held and whoever else is writing it; the handle's offset
\* is 0.
WriteOpen(c) ==
    /\ pc[c] = "write"
    /\ LET path == decompressedPath(TheDir, contents[c][idx[c]])
       IN /\ blocks' = [blocks EXCEPT ![path] = <<>>]
          /\ disk' = [disk EXCEPT ![path] = "partial"]
    /\ position' = [position EXCEPT ![c] = 0]
    /\ pc' = [pc EXCEPT ![c] = "writing"]
    /\ UNCHANGED <<used, bucket, dirLevels, contents, idx, buffer, decompressedData, result, log,
                   disk0, faults>>

\* part_003:447. writeFile fails after the open (disk full): the file stays
\* as it is.
WriteFail(c) ==
    /\ UNCHANGED fileVars
    /\ pc[c] = "writing"
    /\ faults < MaxFaults
    /\ faults' = faults + 1
    /\ catchObject(c, "fs", disk)
    /\ UNCHANGED <<used, bucket, disk, dirLevels, contents, buffer, decompressedData, disk0>>

\* part_003:447. writeFile of call c writes its next piece at the offset of its
\* handle, and the directory shows the file as it is then.
writeChunk(c) ==
    LET path == decompressedPath(TheDir, contents[c][idx[c]])
        n == position[c] + 1
        f == writeAt(blocks[path], n, Chunk(decompressedData[c], n))
    IN /\ blocks' = [blocks EXCEPT ![path] = f]
       /\ disk' = [disk EXCEPT ![path] = contentOf(f)]
       /\ position' = [position EXCEPT ![c] = n]

\* part_003:447. writeFile writes a piece that is not its last and awaits the
\* next write: other calls run in between.
WriteChunk(c) ==
    /\ pc[c] = "writing"
    /\ position[c] + 1 < ChunksOf(decompressedData[c])
    /\ writeChunk(c)
    /\ UNCHANGED <<used, bucket, dirLevels, pc, contents, idx, buffer, decompressedData,
                   result, log, disk0, faults>>

\* part_003:447. writeFile writes its last piece and its promise is settled; the
\* continuation has not run yet. The file is complete unless another call
\* opened it meanwhile.
WriteData(c) ==
    /\ pc[c] = "writing"
    /\ position[c] + 1 = ChunksOf(decompressedData[c])
    /\ writeChunk(c)
    /\ pc' = [pc EXCEPT ![c] = "written"]
    /\ UNCHANGED <<used, bucket, dirLevels, contents, idx, buffer, decompressedData, result,
                   log, disk0, faults>>

\* part_003:447-448. The continuation after await writeFile: console.log
\* ("Saved decompressed file"), and the loop goes on with the directory as it
\* is by now.
WriteOk(c) ==
    /\ UNCHANGED fileVars
    /\ pc[c] = "written"
    /\ LET key == contents[c][idx[c]]
       IN loopFrom(c, contents[c], idx[c] + 1, disk,
                   log[c] \o <<Ev("saved", key, disk[FileOf(key)], "")>>)
    /\ UNCHANGED <<used, bucket, disk, dirLevels, contents, buffer, decompressedData, disk0,
                   faults>>

\* No writeFile under way: the files of the directory are whole.
InitFileVars ==
    /\ blocks = [p \in Paths |-> IF disk[p] = "old" THEN OldFile ELSE <<>>]
    /\ position = [c \in Calls |-> 0]

\* The buckets: any subset of the four keys stored; the first key, when stored,
\* is a gzip stream, and an uncompressed body is stored under the third key only.
InitRetrVars ==
    /\ bucket \in {b \in [Keys -> UNION {BodiesOf(k) : k \in Keys}] :
                     /\ \A k \in Keys : b[k] \in BodiesOf(k)
                     /\ b[K1].kind \in {"none", "gzip"}
                     /\ \A k \in Keys \ {K3} : b[k].kind # "plain"}
    /\ disk \in {d \in [Paths -> {"absent", "old"}] :
                   Cardinality({p \in Paths : d[p] = "old"}) <= 1}
    /\ dirLevels = IF \E p \in Paths : disk[p] # "absent" THEN DirDepth ELSE 0
    /\ pc = [c \in Calls |-> "idle"]
    /\ contents = [c \in Calls |-> <<>>]
    /\ idx = [c \in Calls |-> 0]
    /\ buffer = [c \in Calls |-> NoBody]
    /\ decompressedData = [c \in Calls |-> ""]
    /\ result = [c \in Calls |-> "none"]
    /\ log = [c \in Calls |-> <<>>]
    /\ disk0 = [c \in Calls |-> disk]
    /\ InitFileVars
    /\ faults = 0
    /\ used = [c \in Calls |-> NoUse]

\* A fixed, idle retriever (for the timer's specification).
IdleRetrVars ==
    /\ bucket = [k \in Keys |-> NoBody]
    /\ disk = [p \in Paths |-> "absent"]
    /\ dirLevels = 0
    /\ pc = [c \in Calls |-> "idle"]
    /\ contents = [c \in Calls |-> <<>>]
    /\ idx = [c \in Calls |-> 0]
    /\ buffer = [c \in Calls |-> NoBody]
    /\ decompressedData = [c \in Calls |-> ""]
    /\ result = [c \in Calls |-> "none"]
    /\ log = [c \in Calls |-> <<>>]
    /\ disk0 = [c \in Calls |-> disk]
    /\ InitFileVars
    /\ faults = 0
    /\ used = [c \in Calls |-> NoUse]

\* ================================================================ log shipper
\* The rotating upload stream (spec 4.1 and 5). s3Stream.js:70 only constructs
\* it; its transitions are taken from the specification.

\* maxFileSizeBytes of the RotationPolicy (the value of the spec's scenario).
MaxFileSizeBytes == 100
\* The fixed attempt ceiling of an upload task.
MaxAttempts == 2
\* The configured maximum number of segments in flight.
MaxInFlight == 2
\* The sizes in bytes of the chunks a caller writes.
ChunkSizes == {60, 90, 100}

RECURSIVE sumBytes(_, _)
\* The bytes of the chunks ids (a sequence of indices of ws).
sumBytes(ws, ids) ==
    IF ids = <<>> THEN 0 ELSE ws[Head(ids)].size + sumBytes(ws, Tail(ids))

\* Rotation by size one byte late: only when the limit is exceeded.
shouldRotateStrict(bytes) == bytes > MaxFileSizeBytes

\* spec 4.1, on write: if bytesWritten >= maxFileSizeBytes, rotate.
shouldRotate(bytes) == bytes >= MaxFileSizeBytes

\* The timer rotating whatever the buffer holds, an empty buffer included.
timerRotatesAlways(bytes) == TRUE

\* spec 4.1, timer: if the active segment has any bytes, rotate.
timerRotates(bytes) == bytes >= 1

\* Sealing that keeps only the chunk written last.
sealLastChunk(ts, ids, bytes, by) ==
    Append(ts, [chunks |-> <<ids[Len(ids)]>>, bytes |-> bytes, by |-> by,
                status |-> "PENDING", attempt |-> 0])

\* spec 4.1, ROTATING: the active segment, whole, becomes an UploadTask.
seal(ts, ids, bytes, by) ==
    Append(ts, [chunks |-> ids, bytes |-> bytes, by |-> by,
                status |-> "PENDING", attempt |-> 0])

inFlight(ts) == Cardinality({n \in 1..Len(ts) : ts[n].status = "UPLOADING"})
pendingTasks(ts) == {n \in 1..Len(ts) : ts[n].status = "PENDING"}
firstPending(ts) == CHOOSE n \in pendingTasks(ts) : \A m \in pendingTasks(ts) : n <= m

RECURSIVE dropPending(_)
\* ts without its PENDING tasks.
dropPending(ts) ==
    IF ts = <<>> THEN <<>>
    ELSE IF Head(ts).status = "PENDING" THEN dropPending(Tail(ts))
    ELSE <<Head(ts)>> \o dropPending(Tail(ts))

RECURSIVE startUploadsDropOverflow(_)
\* Starting uploads with the segments over the in-flight limit discarded.
startUploadsDropOverflow(ts) ==
    IF pendingTasks(ts) = {} THEN ts
    ELSE IF inFlight(ts) >= MaxInFlight THEN dropPending(ts)
    ELSE startUploadsDropOverflow([ts EXCEPT ![firstPending(ts)].status = "UPLOADING"])

lastPending(ts) == CHOOSE n \in pendingTasks(ts) : \A m \in pendingTasks(ts) : n >= m

\* A single upload slot fed from a stack: when nothing is in flight the
\* segment sealed last is started.
startUploadsNewestAlone(ts) ==
    IF pendingTasks(ts) = {} \/ inFlight(ts) >= 1 THEN ts
    ELSE [ts EXCEPT ![lastPending(ts)].status = "UPLOADING"]

RECURSIVE startUploads(_)
\* spec 4.1 and 5: uploads are started in seal order while fewer than
\* MaxInFlight are in flight; the other sealed segments wait.
startUploads(ts) ==
    IF pendingTasks(ts) = {} \/ inFlight(ts) >= MaxInFlight THEN ts
    ELSE startUploads([ts EXCEPT ![firstPending(ts)].status = "UPLOADING"])

\* An exhausted upload that reports nothing.
reportNothing(lg, kind, n, t) == lg

\* spec 7, UploadExhaustedError: logged with the segment's key and its
\* buffered content length (kind "unconfirmed" for a shutdown timeout).
report(lg, kind, n, t) == Append(lg, [kind |-> kind, key |-> n, bytes |-> t.bytes])

\* A shutdown that discards the active segment.
shutdownSealNothing(ts, ids, bytes) == ts

\* spec 5, cancellation: shutdown forces a final rotation of a non-empty
\* active segment.
shutdownSeal(ts, ids, bytes) ==
    IF ids = <<>> THEN ts ELSE seal(ts, ids, bytes, "shutdown")

unresolved(ts) == {n \in 1..Len(ts) : ts[n].status \in {"PENDING", "UPLOADING"}}

\* The shipper's state after an operation that may have ended the draining.
closeWhenDrained(st, ts) == IF st = "CLOSING" /\ unresolved(ts) = {} THEN "CLOSED" ELSE st

RECURSIVE abortAll(_, _, _)
\* spec 5: the shutdown timeout aborts the uploads in flight (ABORTED), gives
\* up the segments still queued, whose upload never began (UNSENT), and
\* reports each such segment; r = <<tasks, errorLog>>.
abortAll(ts, lg, n) ==
    IF n > Len(ts) THEN <<ts, lg>>
    ELSE IF ts[n].status \in {"PENDING", "UPLOADING"}
    THEN abortAll([ts EXCEPT ![n].status = IF ts[n].status = "UPLOADING"
                                           THEN "ABORTED" ELSE "UNSENT"],
                  report(lg, "unconfirmed", n, ts[n]), n + 1)
    ELSE abortAll(ts, lg, n + 1)

\* What the shipper held before the operation shOp.
ShipSnap == [state |-> shState, active |-> active, bytes |-> bytesWritten,
             ntasks |-> Len(tasks), nlog |-> Len(errorLog)]

\* spec 4.1, write(data): synchronous append; rotation by size; a write made
\* after shutdown began is not accepted.
Write ==
    \E size \in ChunkSizes :
        LET accepted == shState = "ACCUMULATING"
            ws == Append(writes, [size |-> size, accepted |-> accepted])
            ids == Append(active, Len(ws))
            bytes == bytesWritten + size
        IN /\ Len(writes) < MaxWrites
           /\ writes' = ws
           /\ IF ~accepted
              THEN UNCHANGED <<active, bytesWritten, tasks>>
              ELSE IF shouldRotate(bytes)
              THEN /\ tasks' = startUploads(seal(tasks, ids, bytes, "size"))
                   /\ active' = <<>>
                   /\ bytesWritten' = 0
              ELSE /\ active' = ids
                   /\ bytesWritten' = bytes
                   /\ UNCHANGED tasks
           /\ shOp' = "write"
           /\ shBefore' = ShipSnap
           /\ UNCHANGED <<shState, errorLog>>

\* spec 4.1, the background timer fires (it is cancelled by shutdown).
RotateTimer ==
    /\ shState = "ACCUMULATING"
    /\ IF timerRotates(bytesWritten)
       THEN /\ tasks' = startUploads(seal(tasks, active, bytesWritten, "timer"))
            /\ active' = <<>>
            /\ bytesWritten' = 0
       ELSE UNCHANGED <<tasks, active, bytesWritten>>
    /\ shOp' = "timer"
    /\ shBefore' = ShipSnap
    /\ UNCHANGED <<shState, errorLog, writes>>

\* spec 4.1, UPLOADING: the transfer of task n succeeds.
UploadOk(n) ==
    /\ n \in 1..Len(tasks)
    /\ tasks[n].status = "UPLOADING"
    /\ LET ts == startUploads([tasks EXCEPT ![n].status = "DONE",
                                            ![n].attempt = @ + 1])
       IN /\ tasks' = ts
          /\ shState' = closeWhenDrained(shState, ts)
    /\ shOp' = "uploaded"
    /\ shBefore' = ShipSnap
    /\ UNCHANGED <<active, bytesWritten, errorLog, writes>>

\* spec 4.1, UPLOADING: the transfer of task n fails; it is retried until the
\* attempt ceiling, then reported and abandoned.
UploadFail(n) ==
    /\ n \in 1..Len(tasks)
    /\ tasks[n].status = "UPLOADING"
    /\ LET exhausted == tasks[n].attempt + 1 >= MaxAttempts
           ts == startUploads([tasks EXCEPT
                     ![n].status = IF exhausted THEN "FAILED" ELSE "UPLOADING",
                     ![n].attempt = @ + 1])
       IN /\ tasks' = ts
          /\ errorLog' = IF exhausted THEN report(errorLog, "exhausted", n, tasks[n])
                         ELSE errorLog
          /\ shState' = closeWhenDrained(shState, ts)
    /\ shOp' = "failed"
    /\ shBefore' = ShipSnap
    /\ UNCHANGED <<active, bytesWritten, writes>>

\* spec 5, shutdown: final rotation, then the draining of the uploads.
Shutdown ==
    /\ shState = "ACCUMULATING"
    /\ LET ts == startUploads(shutdownSeal(tasks, active, bytesWritten))
       IN /\ tasks' = ts
          /\ shState' = closeWhenDrained("CLOSING", ts)
    /\ active' = <<>>
    /\ bytesWritten' = 0
    /\ shOp' = "shutdown"
    /\ shBefore' = ShipSnap
    /\ UNCHANGED <<errorLog, writes>>

\* spec 5, the caller's shutdown timeout expires while uploads remain.
ShutdownTimeout ==
    /\ shState = "CLOSING"
    /\ LET r == abortAll(tasks, errorLog, 1)
       IN /\ tasks' = r[1]
          /\ errorLog' = r[2]
    /\ shState' = "CLOSED"
    /\ shOp' = "timeout"
    /\ shBefore' = ShipSnap
    /\ UNCHANGED <<active, bytesWritten, writes>>

InitShipVars ==
    /\ shState = "ACCUMULATING"
    /\ active = <<>>
    /\ bytesWritten = 0
    /\ tasks = <<>>
    /\ errorLog = <<>>
    /\ writes = <<>>
    /\ shOp = "none"
    /\ shBefore = [state |-> "ACCUMULATING", active |-> <<>>, bytes |-> 0,
                   ntasks |-> 0, nlog |-> 0]

\* ============================================================ specifications
InitCache ==
    /\ InitCacheVars /\ IdleRetrVars /\ InitStreamVars
    /\ procEnv = FullEnv /\ globalAwsConfig = NoAwsConfig
    /\ InitShipVars

NextCache ==
    \/ (initCacheClear /\ UNCHANGED <<retrVars, streamVars, shipVars>>)
    \/ (stopCacheClear /\ UNCHANGED <<retrVars, streamVars, shipVars>>)
    \/ (TimerFire /\ UNCHANGED <<retrVars, streamVars, shipVars>>)
    \/ (CallClearCache /\ UNCHANGED <<retrVars, streamVars, shipVars>>)

SpecCache == InitCache /\ [][NextCache]_vars

InitRetrieve ==
    /\ InitRetrVars /\ InitCacheVars /\ InitStreamVars
    /\ procEnv \in Envs /\ globalAwsConfig \in {NoAwsConfig, HostAwsConfig}
    /\ InitShipVars

\* Calls made one after the other: each is awaited before the next is made.
NextRetrieve ==
    \E c \in Calls :
        \/ (/\ \A b \in Calls : b < c => pc[b] = "done"
            /\ Start(c) /\ UNCHANGED <<cacheVars, streamVars, shipVars>>)
        \/ (ListFail(c) /\ UNCHANGED <<cacheVars, streamVars, shipVars>>)
        \/ (ListOk(c) /\ UNCHANGED <<cacheVars, streamVars, shipVars>>)
        \/ (GetFail(c) /\ UNCHANGED <<cacheVars, streamVars, shipVars>>)
        \/ (GetOk(c) /\ UNCHANGED <<cacheVars, streamVars, shipVars>>)
        \/ (BodyFail(c) /\ UNCHANGED <<cacheVars, streamVars, shipVars>>)
        \/ (BodyEnd(c) /\ UNCHANGED <<cacheVars, streamVars, shipVars>>)
        \/ (Gunzip(c) /\ UNCHANGED <<cacheVars, streamVars, shipVars>>)
        \/ (WriteOpenFail(c) /\ UNCHANGED <<cacheVars, streamVars, shipVars>>)
        \/ (WriteOpen(c) /\ UNCHANGED <<cacheVars, streamVars, shipVars>>)
        \/ (WriteFail(c) /\ UNCHANGED <<cacheVars, streamVars, shipVars>>)
        \/ (WriteChunk(c) /\ UNCHANGED <<cacheVars, streamVars, shipVars>>)
        \/ (WriteData(c) /\ UNCHANGED <<cacheVars, streamVars, shipVars>>)
        \/ (WriteOk(c) /\ UNCHANGED <<cacheVars, streamVars, shipVars>>)

SpecRetrieve == InitRetrieve /\ [][NextRetrieve]_vars

\* getStream, resetStream and init alone.
InitStream ==
    /\ InitStreamVars /\ InitCacheVars /\ IdleRetrVars
    /\ procEnv \in ProcEnvs /\ globalAwsConfig = NoAwsConfig
    /\ InitShipVars

NextStream ==
    \/ (init /\ UNCHANGED <<retrVars, shipVars>>)
    \/ (GetStreamCall /\ UNCHANGED <<cacheVars, retrVars, shipVars>>)
    \/ (resetStream /\ UNCHANGED <<cacheVars, retrVars, shipVars>>)

SpecStream == InitStream /\ [][NextStream]_vars

\* init together with the host's own initCacheClear and stopCacheClear calls.
NextInitTimer ==
    \/ (init /\ UNCHANGED <<retrVars, shipVars>>)
    \/ (initCacheClear /\ UNCHANGED <<retrVars, streamVars, shipVars>>)
    \/ (stopCacheClear /\ UNCHANGED <<retrVars, streamVars, shipVars>>)

SpecInitTimer == InitStream /\ [][NextInitTimer]_vars

\* init and downloadS3Logs in one process: one stored object, an empty
\* directory, and a global.awsConfig the host may have assigned itself.
InitShared ==
    /\ InitCacheVars
    /\ InitShipVars
    /\ s3Stream = NoStream
    /\ nextStream = 0
    /\ globalAwsCred = NoCred
    /\ globalAppType = ""
    /\ globalAwsConfig \in {NoAwsConfig, HostAwsConfig}
    /\ procEnv \in ProcEnvs
    /\ gs = NoGet
    /\ ini = NoInit
    /\ bucket = [k \in Keys |-> IF k = K3 THEN gzip(DataOf(k)) ELSE NoBody]
    /\ disk = [p \in Paths |-> "absent"]
    /\ dirLevels = 0
    /\ pc = [c \in Calls |-> "idle"]
    /\ contents = [c \in Calls |-> <<>>]
    /\ idx = [c \in Calls |-> 0]
    /\ buffer = [c \in Calls |-> NoBody]
    /\ decompressedData = [c \in Calls |-> ""]
    /\ result = [c \in Calls |-> "none"]
    /\ log = [c \in Calls |-> <<>>]
    /\ disk0 = [c \in Calls |-> disk]
    /\ InitFileVars
    /\ faults = 0
    /\ used = [c \in Calls |-> NoUse]

\* One init call, at any moment, and one downloadS3Logs call.
NextShared ==
    \/ (~ini.called /\ init /\ UNCHANGED <<retrVars, shipVars>>)
    \/ (Start(1) /\ UNCHANGED <<cacheVars, streamVars, shipVars>>)
    \/ (ListFail(1) /\ UNCHANGED <<cacheVars, streamVars, shipVars>>)
    \/ (ListOk(1) /\ UNCHANGED <<cacheVars, streamVars, shipVars>>)
    \/ (GetFail(1) /\ UNCHANGED <<cacheVars, streamVars, shipVars>>)
    \/ (GetOk(1) /\ UNCHANGED <<cacheVars, streamVars, shipVars>>)
    \/ (BodyFail(1) /\ UNCHANGED <<cacheVars, streamVars, shipVars>>)
    \/ (BodyEnd(1) /\ UNCHANGED <<cacheVars, streamVars, shipVars>>)
    \/ (Gunzip(1) /\ UNCHANGED <<cacheVars, streamVars, shipVars>>)
    \/ (WriteOpenFail(1) /\ UNCHANGED <<cacheVars, streamVars, shipVars>>)
    \/ (WriteOpen(1) /\ UNCHANGED <<cacheVars, streamVars, shipVars>>)
    \/ (WriteFail(1) /\ UNCHANGED <<cacheVars, streamVars, shipVars>>)
    \/ (WriteChunk(1) /\ UNCHANGED <<cacheVars, streamVars, shipVars>>)
    \/ (WriteData(1) /\ UNCHANGED <<cacheVars, streamVars, shipVars>>)
    \/ (WriteOk(1) /\ UNCHANGED <<cacheVars, streamVars, shipVars>>)

SpecShared == InitShared /\ [][NextShared]_vars

\* Calls made without awaiting one another: their steps interleave at every
\* await. Valid gzip objects, an absent directory.
InitInterleaved ==
    /\ InitCacheVars /\ InitShipVars /\ InitStreamVars
    /\ procEnv = FullEnv /\ globalAwsConfig = NoAwsConfig
    /\ bucket \in {b \in [Keys -> UNION {BodiesOf(k) : k \in Keys}] :
                     /\ \A k \in Keys : b[k] \in {NoBody, gzip(DataOf(k))}
                     /\ b[K1] = NoBody \/ b[K2] = NoBody}
    /\ disk = [p \in Paths |-> "absent"]
    /\ dirLevels = 0
    /\ pc = [c \in Calls |-> "idle"]
    /\ contents = [c \in Calls |-> <<>>]
    /\ idx = [c \in Calls |-> 0]
    /\ buffer = [c \in Calls |-> NoBody]
    /\ decompressedData = [c \in Calls |-> ""]
    /\ result = [c \in Calls |-> "none"]
    /\ log = [c \in Calls |-> <<>>]
    /\ disk0 = [c \in Calls |-> disk]
    /\ InitFileVars
    /\ faults = 0
    /\ used = [c \in Calls |-> NoUse]

NextInterleaved ==
    \E c \in Calls :
        \/ (Start(c) /\ UNCHANGED <<cacheVars, streamVars, shipVars>>)
        \/ (ListFail(c) /\ UNCHANGED <<cacheVars, streamVars, shipVars>>)
        \/ (ListOk(c) /\ UNCHANGED <<cacheVars, streamVars, shipVars>>)
        \/ (GetFail(c) /\ UNCHANGED <<cacheVars, streamVars, shipVars>>)
        \/ (GetOk(c) /\ UNCHANGED <<cacheVars, streamVars, shipVars>>)
        \/ (BodyFail(c) /\ UNCHANGED <<cacheVars, streamVars, shipVars>>)
        \/ (BodyEnd(c) /\ UNCHANGED <<cacheVars, streamVars, shipVars>>)
        \/ (Gunzip(c) /\ UNCHANGED <<cacheVars, streamVars, shipVars>>)
        \/ (WriteOpenFail(c) /\ UNCHANGED <<cacheVars, streamVars, shipVars>>)
        \/ (WriteOpen(c) /\ UNCHANGED <<cacheVars, streamVars, shipVars>>)
        \/ (WriteFail(c) /\ UNCHANGED <<cacheVars, streamVars, shipVars>>)
        \/ (WriteChunk(c) /\ UNCHANGED <<cacheVars, streamVars, shipVars>>)
        \/ (WriteData(c) /\ UNCHANGED <<cacheVars, streamVars, shipVars>>)
        \/ (WriteOk(c) /\ UNCHANGED <<cacheVars, streamVars, shipVars>>)

SpecInterleaved == InitInterleaved /\ [][NextInterleaved]_vars

\* One shipper instance: writes, timer, upload completions, shutdown.
InitShipper ==
    /\ InitShipVars /\ InitCacheVars /\ IdleRetrVars /\ InitStreamVars
    /\ procEnv = FullEnv /\ globalAwsConfig = NoAwsConfig

NextShipper ==
    \/ (Write /\ UNCHANGED <<cacheVars, retrVars, streamVars>>)
    \/ (RotateTimer /\ UNCHANGED <<cacheVars, retrVars, streamVars>>)
    \/ (\E n \in 1..MaxWrites : UploadOk(n) /\ UNCHANGED <<cacheVars, retrVars, streamVars>>)
    \/ (\E n \in 1..MaxWrites : UploadFail(n) /\ UNCHANGED <<cacheVars, retrVars, streamVars>>)
    \/ (Shutdown /\ UNCHANGED <<cacheVars, retrVars, streamVars>>)
    \/ (ShutdownTimeout /\ UNCHANGED <<cacheVars, retrVars, streamVars>>)

SpecShipper == InitShipper /\ [][NextShipper]_vars

Init == InitRetrieve
Next == NextRetrieve \/ NextCache \/ NextStream \/ NextShipper
Spec == Init /\ [][Next]_vars

\* ================================================================ properties
\* ---- observers of a call's history
Events(c, kinds) == {n \in 1..Len(log[c]) : log[c][n].ev \in kinds}
KeysOf(c, kinds) == {log[c][n].key : n \in Events(c, kinds)}

RECURSIVE keySeq(_, _, _)
keySeq(lg, n, kinds) ==
    IF n > Len(lg) THEN <<>>
    ELSE (IF lg[n].ev \in kinds THEN <<lg[n].key>> ELSE <<>>) \o keySeq(lg, n + 1, kinds)

\* The objects a call has reached (skipped or requested), in order.
Reached(c) == keySeq(log[c], 1, {"skip", "get"})

\* The directory as call c left it (calls run one after the other).
DiskAfter(c) == IF c = NumCalls \/ pc[c + 1] = "idle" THEN disk ELSE disk0[c + 1]

\* Transient failures (network, file system) seen by call c.
Transient(c) == {n \in 1..Len(log[c]) : log[c][n].msg \in {"network", "fs", "list_failed"}}

\* C1: after any sequence of initCacheClear and stopCacheClear calls at most one
\* cache-clear timer is active; an initCacheClear leaves exactly one active timer,
\* the one it returned, and the timer that ran before it is cancelled.
C1_AtMostOneTimer ==
    /\ Cardinality(timers) <= 1
    /\ lastOp = "init" =>
          /\ timers = {returned}
          /\ cacheInterval = returned
          /\ prev.handle # Null => prev.handle \notin timers

\* C1 witness: initCacheClear was called twice in a row; the first timer was
\* active before the second call and only the second one is active after it.
C1_Witness ==
    /\ lastOp = "init" /\ prev.op = "init"
    /\ prev.handle \in prev.timers
    /\ timers = {returned} /\ returned # prev.handle

\* C2: from a stopCacheClear until the next initCacheClear no timer is active, no
\* timer fires clearCache and the stored handle is null; a stopCacheClear called
\* with no stored handle leaves timers and handle as they were.
C2_StopLeavesNoTimer ==
    /\ stopped => timers = {} /\ cacheInterval = Null
    /\ ~lateFire
    /\ (lastOp = "stop" /\ prev.handle = Null) =>
          timers = prev.timers /\ cacheInterval = prev.handle

\* C2 witness: stopCacheClear has just cancelled a timer that was active.
C2_Witness ==
    /\ lastOp = "stop"
    /\ prev.handle # Null /\ prev.handle \in prev.timers
    /\ timers = {} /\ cacheInterval = Null

\* C3 as stated: clearCache never raises to its caller; it calls global.gc
\* exactly when the host exposes it; when nothing fails it logs the
\* cache-cleared line; when the hook or console.log throws, the error is caught
\* and logged with console.error instead of propagating.
C3_ClearCacheNeverRaises ==
    cc.by # "none" =>
        /\ ~cc.raised
        /\ cc.gcCalled <=> cc.gc # "absent"
        /\ (cc.gc = "throws" \/ cc.lg = "throws") => cc.errLogged /\ ~cc.logged
        /\ (cc.gc # "throws" /\ cc.lg = "ok") => cc.logged /\ ~cc.errLogged

\* C4: a call whose listing is answered with no objects rejects with the
\* not-found error, sends no GetObject request and leaves every file of the
\* local directory as it was.
C4_EmptyListingNotFound ==
    \A c \in Calls :
        (/\ pc[c] = "done"
         /\ Events(c, {"list"}) # {}
         /\ result[c] # "list_failed"
         /\ \A k \in Keys : bucket[k] = NoBody)
        => /\ result[c] = "not_found"
           /\ Events(c, {"get", "saved"}) = {}
           /\ DiskAfter(c) = disk0[c]

\* C4 witness: a call on a prefix without objects has ended with not-found.
C4_Witness ==
    \E c \in Calls :
        /\ pc[c] = "done" /\ result[c] = "not_found"
        /\ \A k \in Keys : bucket[k] = NoBody
        /\ \E p \in Paths : disk[p] = "old"

\* C5 as stated: whatever objects the bucket holds (here: gzip streams, intact
\* or damaged), a second call that follows a first one, both completing and
\* no transient failure occurring, sends no GetObject.
C5_SecondRunDownloadsNothing ==
    (/\ pc[1] = "done" /\ result[1] = "ok"
     /\ pc[2] = "done" /\ result[2] = "ok"
     /\ \A k \in Keys : bucket[k].kind # "plain"
     /\ faults = 0)
    => Events(2, {"get"}) = {}

\* C5 amended: a call that follows a completed call requests only objects whose
\* decompressed file is missing after that call (objects whose download,
\* decompression or write failed in it); no object the earlier call saved is
\* requested again, and when every listed object has its file after the earlier
\* call the later call sends no GetObject at all.
C5_SecondRunDownloadsOnlyMissing ==
    \A c \in Calls \ {1} :
        result[c - 1] = "ok" =>
            /\ \A k \in KeysOf(c, {"get"}) : disk0[c][FileOf(k)] = "absent"
            /\ KeysOf(c, {"get"}) \cap KeysOf(c - 1, {"saved"}) = {}
            /\ (\A n \in 1..Len(contents[c]) : disk0[c][FileOf(contents[c][n])] # "absent")
                  => Events(c, {"get"}) = {}

\* C5 witness: the first call saved two objects into an empty directory and the
\* second call, listing the same objects, completed without any GetObject.
C5_Witness ==
    /\ \A p \in Paths : disk0[1][p] = "absent"
    /\ pc[1] = "done" /\ Cardinality(KeysOf(1, {"saved"})) >= 2
    /\ pc[2] = "done" /\ result[2] = "ok"
    /\ contents[2] = contents[1]
    /\ Events(2, {"get"}) = {}

\* C6: an object is requested (GetObject) exactly when its decompressed file
\* does not exist at the moment the loop reaches it and is skipped otherwise;
\* the objects are reached in listing order, each once; the file of a skipped
\* object is, when the call ends, what it was when the object was skipped.
C6_DownloadIffFileMissing ==
    \A c \in Calls :
        /\ \A n \in Events(c, {"get"}) : log[c][n].was = "absent"
        /\ \A n \in Events(c, {"skip"}) : log[c][n].was # "absent"
        /\ Len(Reached(c)) <= Len(contents[c])
        /\ Reached(c) = SubSeq(contents[c], 1, Len(Reached(c)))
        /\ pc[c] = "done" =>
              \A n \in Events(c, {"skip"}) :
                  DiskAfter(c)[FileOf(log[c][n].key)] = log[c][n].was

\* C6 witness: of two listed objects the first had its decompressed file and was
\* skipped, the file being left as it was; only the second was requested and
\* saved.
C6_Witness ==
    \E c \in Calls :
        /\ pc[c] = "done" /\ result[c] = "ok"
        /\ contents[c] = <<K3, K4>>
        /\ disk0[c][FileOf(K3)] = "old" /\ disk0[c][FileOf(K4)] = "absent"
        /\ KeysOf(c, {"skip"}) = {K3}
        /\ KeysOf(c, {"get"}) = {K4} /\ KeysOf(c, {"saved"}) = {K4}
        /\ disk[FileOf(K3)] = "old" /\ disk[FileOf(K4)] = DataOf(K4)

\* C7 as stated: a call into an empty directory that lists N objects of which
\* exactly one is no gzip stream, and meets no transient failure, logs exactly
\* one failure, saves exactly N-1 files, leaves no file for the corrupted
\* object and completes.
C7_OneCorruptedObject ==
    \A c \in Calls :
        (/\ pc[c] = "done"
         /\ \A p \in Paths : disk0[c][p] = "absent"
         /\ Transient(c) = {}
         /\ Len(contents[c]) >= 1
         /\ Cardinality({n \in 1..Len(contents[c]) : bucket[contents[c][n]].kind # "gzip"}) = 1)
        => /\ result[c] = "ok"
           /\ Cardinality(Events(c, {"warn"})) = 1
           /\ Cardinality(Events(c, {"saved"})) = Len(contents[c]) - 1
           /\ \A n \in 1..Len(contents[c]) :
                 bucket[contents[c][n]].kind = "gzip" =>
                     DiskAfter(c)[FileOf(contents[c][n])] = DataOf(contents[c][n])

\* C8: a failure while downloading, decompressing or writing an object is
\* logged with the key of that object, right after its request, and the loop
\* goes on: a call whose listing returned objects reaches every one of them in
\* listing order and completes, also when every object fails; a call that got
\* as far as its listing rejects only with the listing's failure or not-found.
C8_PerObjectFailureContained ==
    \A c \in Calls :
        /\ \A n \in Events(c, {"warn", "saved"}) :
              /\ n > 1
              /\ log[c][n - 1].ev = "get"
              /\ log[c][n - 1].key = log[c][n].key
        /\ (pc[c] = "done" /\ contents[c] # <<>>) =>
              /\ result[c] = "ok"
              /\ Reached(c) = contents[c]
              /\ \A n \in Events(c, {"get"}) :
                    n < Len(log[c]) /\ log[c][n + 1].ev \in {"warn", "saved"}
        /\ (pc[c] = "done" /\ Events(c, {"list"}) # {} /\ result[c] # "ok") =>
              /\ result[c] \in {"list_failed", "not_found"}
              /\ contents[c] = <<>>

\* C8 witness: a call listed three objects, every one of them failed (one by a
\* transient failure, the others in decompression) and the call completed.
C8_Witness ==
    \E c \in Calls :
        /\ pc[c] = "done" /\ result[c] = "ok"
        /\ Len(contents[c]) = 3
        /\ KeysOf(c, {"warn"}) = {contents[c][n] : n \in 1..3}
        /\ Transient(c) # {}
        /\ "gunzip" \in {log[c][n].msg : n \in Events(c, {"warn"})}
        /\ Events(c, {"saved", "skip"}) = {}

\* C9 as stated: a completed call has considered (skipped or requested) every
\* object stored under the prefix, on whatever page of the listing it lies.
C9_EveryPageEnumerated ==
    \A c \in Calls :
        (pc[c] = "done" /\ result[c] = "ok")
        => \A k \in Keys : bucket[k] # NoBody => k \in KeysOf(c, {"skip", "get"})

\* C10 as stated: after a completed call without transient failure into an
\* empty directory, a listed object whose body is not gzip-compressed has a
\* local file holding its content.
C10_PlainObjectMaterialised ==
    \A c \in Calls :
        (/\ pc[c] = "done" /\ result[c] = "ok"
         /\ Transient(c) = {}
         /\ \A p \in Paths : disk0[c][p] = "absent")
        => \A n \in 1..Len(contents[c]) :
              (bucket[contents[c][n]] = plain(DataOf(contents[c][n]))
               /\ \A m \in 1..Len(contents[c]) :
                     m # n => FileOf(contents[c][m]) # FileOf(contents[c][n]))
              => DiskAfter(c)[FileOf(contents[c][n])] = DataOf(contents[c][n])

\* C11 as stated: the decompressed result is written atomically, so once a call
\* has ended every file of the directory either does not exist or holds a
\* complete body; a write that failed part-way leaves no partial file behind.
C11_AtomicWrite ==
    \A c \in Calls :
        pc[c] = "done" => \A p \in Paths : DiskAfter(c)[p] # "partial"

\* ---- s3Stream.js / index.js
\* s3Stream.js:57,62. The bucket or a credential of the merged config is absent.
missingStreamConfig(m) ==
    m.bucket = "" \/ m.access_key_id = "" \/ m.secret_access_key = ""

\* C12 as stated: constructing the shipper with an absent bucket, access key id
\* or secret access key fails fast: getStream, and init with S3 logging enabled,
\* throw a configuration error to their caller.
C12_ConstructionFailsFast ==
    /\ (gs.called /\ missingStreamConfig(gs.out.merged)) => gs.out.threw
    /\ (ini.called /\ ini.enableS3Logging /\ missingStreamConfig(gs.out.merged))
          => ini.threw

\* ---- downloadS3Logs: configuration
ConfigFields == {"region", "accessKeyId", "secretAccessKey", "bucket"}

\* C13: a call whose region, access key id, secret access key or bucket name
\* resolves to nothing ends at once with the configuration error thrown to its
\* caller: it sends no list or get request and writes no file.
C13_MissingConfigThrowsFirst ==
    \A c \in Calls :
        (used[c].set /\ \E f \in ConfigFields : used[c].config[f] = "")
            => /\ pc[c] = "done"
               /\ result[c] = "config"
               /\ log[c] = <<>>
               /\ DiskAfter(c) = disk0[c]

\* A call made with global.awsConfig assigned by the host (region and bucket)
\* and no secret access key in the environment has thrown the configuration
\* error; the directory was created, no file was.
C13_Witness ==
    /\ result[1] = "config" /\ used[1].set
    /\ globalAwsConfig.set
    /\ used[1].config.bucket # "" /\ used[1].config.secretAccessKey = ""
    /\ dirExistsSync(dirLevels)

\* ---- init and downloadS3Logs
\* The init options that carry a complete explicit awsConfig.
ExplicitOpts ==
    {n \in 1..Len(InitOptions) :
        /\ "awsConfig" \in DOMAIN InitOptions[n]
        /\ DOMAIN InitOptions[n].awsConfig = DOMAIN ExplicitAws}

\* C14 as stated: after init was called with an explicit awsConfig and created
\* its stream, a following downloadS3Logs call uses the bucket and the
\* credentials of that stream, whatever the environment holds.
C14_SharedConfiguration ==
    \A c \in Calls :
        (used[c].set /\ used[c].initOpt \in ExplicitOpts /\ used[c].initStream.id # Null)
            => /\ used[c].config.bucket = used[c].initStream.cfg.bucket
               /\ used[c].config.accessKeyId = used[c].initStream.cfg.access_key_id
               /\ used[c].config.secretAccessKey
                      = used[c].initStream.cfg.secret_access_key

\* ---- log shipper
\* The write calls the shipper accepted, and their bytes.
Accepted == {n \in 1..Len(writes) : writes[n].accepted}
\* (writes are accepted until shutdown, so Accepted is an initial run of writes)
TotalBytes == sumBytes(writes, [n \in 1..Cardinality(Accepted) |-> n])
ceilDiv(a, b) == (a + b - 1) \div b

RECURSIVE chunksOf(_)
\* The chunks of the sealed segments ts, in seal order.
chunksOf(ts) == IF ts = <<>> THEN <<>> ELSE Head(ts).chunks \o chunksOf(Tail(ts))

\* Every chunk the shipper holds or held: sealed segments, then the active one.
Placed == chunksOf(tasks) \o active

Reported(kind, n) ==
    {m \in 1..Len(errorLog) : errorLog[m].kind = kind /\ errorLog[m].key = n}

\* C15 as stated: once the bytes written exceed maxFileSizeBytes, at least
\* ceil(totalBytes / maxFileSizeBytes) segments are sealed and every sealed
\* segment holds at most maxFileSizeBytes bytes.
C15_CeilSegmentsWithinLimit ==
    TotalBytes > MaxFileSizeBytes
        => /\ Len(tasks) >= ceilDiv(TotalBytes, MaxFileSizeBytes)
           /\ \A n \in 1..Len(tasks) : tasks[n].bytes <= MaxFileSizeBytes

\* C15 amended: the active segment always holds fewer than maxFileSizeBytes
\* bytes, so once the bytes written reach maxFileSizeBytes at least one segment
\* is sealed; a segment sealed by size holds at least maxFileSizeBytes bytes
\* and had fewer before the last chunk written to it.
C15_SealedBySizeWithinOneChunk ==
    /\ bytesWritten < MaxFileSizeBytes
    /\ bytesWritten = sumBytes(writes, active)
    /\ TotalBytes >= MaxFileSizeBytes => Len(tasks) >= 1
    /\ \A n \in 1..Len(tasks) :
          tasks[n].by = "size"
              => /\ tasks[n].bytes >= MaxFileSizeBytes
                 /\ tasks[n].bytes
                       - writes[tasks[n].chunks[Len(tasks[n].chunks)]].size
                          < MaxFileSizeBytes

\* Writes totalling more than maxFileSizeBytes have sealed fewer segments than
\* the ceiling, one of them larger than maxFileSizeBytes.
C15_Witness ==
    /\ TotalBytes > MaxFileSizeBytes
    /\ Len(tasks) < ceilDiv(TotalBytes, MaxFileSizeBytes)
    /\ \E n \in 1..Len(tasks) :
          tasks[n].by = "size" /\ tasks[n].bytes > MaxFileSizeBytes

\* C16: an accepted write appends its whole chunk to the active segment, and
\* it rotates exactly when bytesWritten after the append is >= maxFileSizeBytes:
\* the rotation seals the whole accumulated buffer as one segment and leaves
\* the buffer empty; otherwise the buffer grows by the chunk and nothing is
\* sealed.
C16_WriteAppendsThenRotates ==
    (shOp = "write" /\ writes[Len(writes)].accepted)
        => LET id == Len(writes)
               after == shBefore.bytes + writes[id].size
           IN IF after >= MaxFileSizeBytes
              THEN /\ Len(tasks) = shBefore.ntasks + 1
                   /\ tasks[Len(tasks)].chunks = Append(shBefore.active, id)
                   /\ tasks[Len(tasks)].bytes = after
                   /\ tasks[Len(tasks)].bytes = sumBytes(writes, tasks[Len(tasks)].chunks)
                   /\ active = <<>>
                   /\ bytesWritten = 0
              ELSE /\ Len(tasks) = shBefore.ntasks
                   /\ active = Append(shBefore.active, id)
                   /\ bytesWritten = after

\* The scenario: writes of 90 then 60 bytes; the second one has just sealed
\* one segment of 150 bytes holding both chunks.
C16_Witness ==
    /\ shOp = "write"
    /\ Len(writes) = 2 /\ writes[1].size = 90 /\ writes[2].size = 60
    /\ shBefore.bytes = 90 /\ shBefore.ntasks = 0
    /\ Len(tasks) = 1 /\ tasks[1].bytes = 150 /\ tasks[1].chunks = <<1, 2>>
    /\ active = <<>>

\* C17: no sealed segment is empty; a timer firing on an empty active segment
\* changes nothing, and one firing on a segment of at least one byte seals it
\* whatever its size.
C17_NoEmptySegment ==
    /\ \A n \in 1..Len(tasks) : tasks[n].chunks # <<>> /\ tasks[n].bytes >= 1
    /\ shOp = "timer"
         => IF shBefore.bytes = 0
            THEN /\ Len(tasks) = shBefore.ntasks
                 /\ active = <<>> /\ bytesWritten = 0
            ELSE /\ Len(tasks) = shBefore.ntasks + 1
                 /\ tasks[Len(tasks)].chunks = shBefore.active
                 /\ tasks[Len(tasks)].bytes = shBefore.bytes
                 /\ active = <<>> /\ bytesWritten = 0

\* The timer has just fired on an empty buffer, after an earlier firing sealed
\* a segment smaller than maxFileSizeBytes.
C17_Witness ==
    /\ shOp = "timer" /\ shBefore.bytes = 0 /\ shBefore.active = <<>>
    /\ \E n \in 1..Len(tasks) :
          tasks[n].by = "timer" /\ tasks[n].bytes < MaxFileSizeBytes

\* C18: an upload is attempted at most MaxAttempts times; a segment whose
\* attempts are exhausted is reported once, with its key and length, and stays
\* on record; a failed upload leaves an accumulating shipper accumulating, and
\* a write made to an accumulating shipper is accepted whatever has failed.
C18_UploadFailureContained ==
    /\ \A n \in 1..Len(tasks) :
          /\ tasks[n].attempt <= MaxAttempts
          /\ tasks[n].status = "FAILED"
                => /\ tasks[n].attempt = MaxAttempts
                   /\ Cardinality(Reported("exhausted", n)) = 1
                   /\ \A m \in Reported("exhausted", n) :
                          errorLog[m].bytes = tasks[n].bytes
    /\ Len(tasks) >= shBefore.ntasks
    /\ (shOp = "failed" /\ shBefore.state = "ACCUMULATING") => shState = "ACCUMULATING"
    /\ (shOp = "write" /\ shBefore.state = "ACCUMULATING") => writes[Len(writes)].accepted

\* The first segment was abandoned after its last attempt and reported; a
\* write made afterwards has just been accepted, has rotated, and the upload
\* of its segment has started.
C18_Witness ==
    /\ shOp = "write" /\ writes[Len(writes)].accepted
    /\ Len(tasks) >= 2
    /\ tasks[1].status = "FAILED" /\ Reported("exhausted", 1) # {}
    /\ Len(tasks) = shBefore.ntasks + 1
    /\ tasks[Len(tasks)].status = "UPLOADING"
    /\ shState = "ACCUMULATING"

\* C19: under every interleaving of writes, timer firings and upload
\* completions each accepted chunk is in exactly one place, the active segment
\* or one sealed segment, in the order written; a write made while uploads are
\* in flight or queued is accepted and placed like any other.
C19_EveryChunkInOnePlace ==
    /\ Placed = [n \in 1..Cardinality(Accepted) |-> n]
    /\ inFlight(tasks) <= MaxInFlight
    /\ (shOp = "write" /\ shBefore.state = "ACCUMULATING")
          => \E n \in 1..Len(Placed) : Placed[n] = Len(writes)

\* A write has just been accepted while MaxInFlight uploads were in flight;
\* its segment waits behind them.
C19_Witness ==
    /\ shOp = "write" /\ writes[Len(writes)].accepted
    /\ inFlight(tasks) = MaxInFlight
    /\ pendingTasks(tasks) # {}
    /\ Len(Placed) = Len(writes)

\* An upload of task n began: it ended (DONE, FAILED) or was aborted in flight.
Attempted(n) == tasks[n].status \in {"UPLOADING", "DONE", "FAILED", "ABORTED"}

\* C20 as stated: the shipper is CLOSED only after the final partial segment
\* was sealed (every accepted chunk is in a sealed segment, nothing is left in
\* the active one) and the upload of that segment has been attempted; no write
\* is accepted once CLOSED; and after a shutdown timeout every segment not
\* confirmed uploaded is reported.
C20_ClosedAfterFinalUploadAttempted ==
    /\ shState = "CLOSED"
         => /\ active = <<>> /\ bytesWritten = 0
            /\ chunksOf(tasks) = [n \in 1..Cardinality(Accepted) |-> n]
            /\ \A n \in 1..Len(tasks) : tasks[n].by = "shutdown" => Attempted(n)
            /\ \A n \in 1..Len(tasks) :
                  tasks[n].status # "DONE" =>
                      Reported("unconfirmed", n) # {} \/ Reported("exhausted", n) # {}
    /\ (shOp = "write" /\ shBefore.state = "CLOSED") => ~writes[Len(writes)].accepted

\* C20 amended: the shipper is CLOSED only when nothing is left in the active
\* segment, every accepted chunk is in a sealed segment and every segment is
\* settled: uploaded, abandoned after its attempts and reported, aborted in
\* flight by the shutdown timeout and reported as unconfirmed, or, by the
\* timeout only, given up before its upload began and reported as unconfirmed,
\* which happens only to a segment queued behind MaxInFlight uploads the
\* timeout aborted; from shutdown on no write is accepted.
C20_ShutdownDrains ==
    /\ shState \in {"CLOSING", "CLOSED"} => active = <<>> /\ bytesWritten = 0
    /\ (shOp = "write" /\ shBefore.state \in {"CLOSING", "CLOSED"})
          => ~writes[Len(writes)].accepted
    /\ shState = "CLOSED"
         => /\ chunksOf(tasks) = [n \in 1..Cardinality(Accepted) |-> n]
            /\ \A n \in 1..Len(tasks) :
                  \/ tasks[n].status = "DONE" /\ tasks[n].attempt >= 1
                  \/ /\ tasks[n].status = "FAILED" /\ tasks[n].attempt >= 1
                     /\ Reported("exhausted", n) # {}
                  \/ tasks[n].status = "ABORTED" /\ Reported("unconfirmed", n) # {}
                  \/ /\ tasks[n].status = "UNSENT" /\ tasks[n].attempt = 0
                     /\ Reported("unconfirmed", n) # {}
                     /\ Cardinality({m \in 1..(n - 1) : tasks[m].status = "ABORTED"})
                            = MaxInFlight
    /\ \A n \in 1..Len(tasks) :
          tasks[n].status \in {"ABORTED", "UNSENT"} => shState = "CLOSED"

\* The shipper closed by its shutdown timeout while MaxInFlight uploads were
\* in flight: they were aborted, and the final partial segment, sealed by the
\* shutdown and queued behind them, was given up before its upload began;
\* all of them are reported as unconfirmed.
C20_Witness ==
    /\ shState = "CLOSED" /\ shOp = "timeout"
    /\ \E n \in 1..Len(tasks) :
          /\ tasks[n].by = "shutdown" /\ tasks[n].status = "UNSENT"
          /\ tasks[n].bytes < MaxFileSizeBytes
          /\ Reported("unconfirmed", n) # {}
          /\ \A m \in 1..(n - 1) :
                tasks[m].status = "ABORTED" /\ Reported("unconfirmed", m) # {}

\* An upload of the task was started at some moment.
started(t) == t.status \in {"UPLOADING", "DONE", "FAILED"} \/ t.attempt >= 1

LastOptions == InitOptions[ini.opt]

\* C22 as stated: init called with an appType option and no s3Config.folder /
\* s3Config.nameFormat (and no S3_LOG_FOLDER / S3_LOG_NAME_FORMAT in the
\* environment) uses logs/<appType>/ and %Y-%m-%d-%H-%M-<appType>-error.log
\* for the appType of the options, in the returned config and in the
\* configuration handed to the S3 stream.
C22_FolderFollowsAppTypeOption ==
    (/\ ini.called
     /\ "appType" \in DOMAIN LastOptions
     /\ "s3Config" \notin DOMAIN LastOptions
     /\ procEnv.folder = "" /\ procEnv.nameFormat = "")
        => LET folder == "logs/" \o LastOptions.appType \o "/"
               nameFormat == "%Y-%m-%d-%H-%M-" \o LastOptions.appType \o "-error.log"
           IN /\ ini.folder = folder
              /\ ini.nameFormat = nameFormat
              /\ ini.getStreamCalled
                    => /\ gs.out.merged.folder = folder
                       /\ gs.out.merged.name_format = nameFormat

\* C23: an init call with S3 logging disabled constructs no shipper: getStream
\* is not called (the cached stream and the number of constructed instances
\* are as before), the returned s3Stream is null, the logger has no S3
\* transport, and the logger and the morgan middleware are created.
C23_DisabledConstructsNothing ==
    (ini.called /\ ~ini.enableS3Logging)
        => /\ ~ini.getStreamCalled
           /\ ~gs.called
           /\ s3Stream = ini.cacheBefore
           /\ nextStream = ini.nextBefore
           /\ ini.s3Stream = NoStream
           /\ ~ini.logger.s3Transport
           /\ ini.logger.created
           /\ ini.morgan
           /\ ~ini.threw

\* init was called with enableS3Logging false and a complete awsConfig while
\* an earlier call had left a stream in the cache.
C23_Witness ==
    /\ ini.called /\ ~ini.enableS3Logging
    /\ "enableS3Logging" \in DOMAIN LastOptions
    /\ ini.cacheBefore.id # Null
    /\ ini.s3Stream = NoStream

\* ---- getStream
\* The last getStream call was made with a config holding no key.
EmptyConfigCall == gs.called /\ ~gs.byInit /\ DOMAIN Configs[gs.cfg] = {}

\* C24: getStream called with an empty config while a stream is cached returns
\* that instance and constructs nothing; called with a non-empty config
\* (forceRefresh included) and a bucket and credentials, its constructor
\* returning, it constructs a new instance, returns it and caches it in place
\* of the previous one; and the call that follows a resetStream does not return
\* the instance the reset took out of the cache.
C24_CachedOrNewInstance ==
    /\ (EmptyConfigCall /\ gs.before.id # Null)
          => /\ gs.out.ret = gs.before
             /\ ~gs.out.constructed
             /\ s3Stream = gs.before
    /\ (/\ gs.called /\ ~EmptyConfigCall
        /\ ~missingStreamConfig(gs.out.merged) /\ ~gs.out.errLogged)
          => /\ gs.out.constructed
             /\ gs.out.ret.id = nextStream
             /\ gs.out.ret.id > gs.before.id
             /\ gs.out.ret.cfg = gs.out.merged
             /\ s3Stream = gs.out.ret
    /\ (gs.called /\ gs.dropped.id # Null) => gs.out.ret.id # gs.dropped.id
    /\ (~gs.called /\ gs.dropped.id # Null) => s3Stream = NoStream

\* After a resetStream of a cached stream, getStream() with an empty config
\* has constructed and returned a new instance.
C24_Witness ==
    /\ EmptyConfigCall
    /\ gs.dropped.id # Null
    /\ gs.out.constructed
    /\ gs.out.ret.id > gs.dropped.id

\* The last getStream call failed: the bucket or a credential of its merged
\* config was absent, or the S3StreamLogger constructor threw.
FailedCall == gs.called /\ (missingStreamConfig(gs.out.merged) \/ gs.out.errLogged)

\* C25: getStream never throws; a call that finds the bucket or a credential
\* missing, or whose constructor throws, returns null and leaves the cached
\* stream as it was; and a getStream() with an empty config that follows the
\* failed call returns the stream cached before it, constructing nothing.
C25_FailedCallKeepsCache ==
    /\ [](/\ gs.called => ~gs.out.threw
          /\ FailedCall => /\ gs.out.ret = NoStream
                           /\ ~gs.out.constructed
                           /\ s3Stream = gs.before)
    /\ [][(/\ FailedCall /\ gs.before.id # Null
           /\ gs'.called /\ ~gs'.byInit /\ DOMAIN Configs[gs'.cfg] = {})
             => /\ gs'.out.ret = gs.before
                /\ ~gs'.out.constructed
                /\ s3Stream' = gs.before]_vars

\* A call whose constructor threw was made while a stream was cached, and the
\* cache still holds that stream.
C25_Witness ==
    /\ FailedCall
    /\ gs.before.id # Null
    /\ gs.out.errLogged
    /\ s3Stream = gs.before

\* ---- downloadS3Logs: arguments and directory
\* Call c was given an empty (or no) prefix or local directory.
EmptyArgument(c) == used[c].args.s3Prefix = "" \/ used[c].args.localDownloadDir = ""

\* Call c makes its first step: everything up to its first await.
Starts(c) == pc[c] = "idle" /\ pc'[c] # "idle"

\* C26: a call with an empty or missing prefix or local directory ends at once
\* with the argument error: it creates no directory, sends no request and
\* writes no file; a call given both, whose local directory is absent, has the
\* directory and its missing parents created before its listing request is
\* sent.
C26_ArgumentsCheckedFirst ==
    /\ [][\A c \in Calls :
            /\ (Starts(c) /\ EmptyArgument(c)')
                  => /\ pc'[c] = "done"
                     /\ result'[c] = "args"
                     /\ dirLevels' = dirLevels
                     /\ log'[c] = <<>>
                     /\ disk' = disk
            /\ (Starts(c) /\ ~EmptyArgument(c)')
                  => /\ result'[c] \notin {"args", "mkdir"}
                     /\ dirExistsSync(dirLevels')]_vars
    /\ [](\A c \in Calls :
            /\ (pc[c] # "idle" /\ EmptyArgument(c))
                  => pc[c] = "done" /\ log[c] = <<>> /\ DiskAfter(c) = disk0[c]
            /\ log[c] # <<>> => dirExistsSync(dirLevels))

\* Both cases have happened: the first call, given no local directory, was
\* rejected and left the directory absent (a directory holding no file is
\* absent at the start); the second call, given both arguments, created it
\* and has sent its listing request.
C26_Witness ==
    /\ \A p \in Paths : disk0[2][p] = "absent"
    /\ result[1] = "args" /\ used[1].args.s3Prefix # ""
    /\ pc[2] # "idle" /\ ~EmptyArgument(2)
    /\ dirExistsSync(dirLevels)
    /\ Len(log[2]) >= 1 /\ log[2][1].ev = "list"

\* ---- downloadS3Logs: interleaved calls
\* The GetObject requests sent for object k by all calls together.
Downloads(k) ==
    {<<c, n>> \in Calls \X (1..(2 * Len(KeyOrder) + 1)) :
        n <= Len(log[c]) /\ log[c][n].ev = "get" /\ log[c][n].key = k}

\* C27 as stated: when calls for the same prefix and directory interleave,
\* every object is downloaded at most once by all calls together, and once
\* all calls have ended every object that was decompressed has its one local
\* file holding its whole decompressed body.
C27_InterleavedDownloadOnce ==
    /\ \A k \in Keys : Cardinality(Downloads(k)) <= 1
    /\ (\A c \in Calls : pc[c] = "done")
          => \A c \in Calls : \A k \in KeysOf(c, {"saved"}) : disk[FileOf(k)] = DataOf(k)

\* ---- downloadS3Logs: keys sharing a base name
\* C28 as stated: after a call into an empty directory that completed and met
\* no transient failure, every listed object whose body is a gzip stream has
\* its decompressed content in the directory, also when two listed keys have
\* the same base name in different folders.
C28_EveryValidObjectOnDisk ==
    \A c \in Calls :
        (/\ pc[c] = "done" /\ result[c] = "ok"
         /\ \A p \in Paths : disk0[c][p] = "absent"
         /\ Transient(c) = {})
        => \A n \in 1..Len(contents[c]) :
              bucket[contents[c][n]].kind = "gzip"
                  => \E p \in Paths : DiskAfter(c)[p] = DataOf(contents[c][n])

\* ---- init and the cache-clear timer
\* The step is a call of init (the history of the last init call changes).
InitCalled == ini' # ini /\ ini'.called

\* The options of the init call of this step give a falsy cacheInterval.
FalsyInterval ==
    /\ "cacheInterval" \in DOMAIN InitOptions[ini'.opt]
    /\ InitOptions[ini'.opt].cacheInterval = 0

\* C29: a call of init with a falsy cacheInterval leaves the timer state as it
\* was, so a timer started by an earlier init or initCacheClear keeps running;
\* a call with a truthy (or no) cacheInterval starts a new timer in place of
\* the one that ran; and at most one cache-clear timer is active at any time.
C29_InitTimerOnlyWhenTruthy ==
    /\ [][InitCalled =>
            IF FalsyInterval
            THEN UNCHANGED <<cacheInterval, timers, nextTimer>>
            ELSE /\ cacheInterval' # Null
                 /\ cacheInterval' \notin timers
                 /\ timers' = {cacheInterval'}]_vars
    /\ [](Cardinality(timers) <= 1 /\ timers \subseteq {cacheInterval})

\* init was called with cacheInterval 0 while a timer started by an earlier
\* call was running, and that timer is still the active one.
C29_Witness ==
    /\ ini.called
    /\ "cacheInterval" \in DOMAIN LastOptions /\ LastOptions.cacheInterval = 0
    /\ ini.handleBefore # Null
    /\ cacheInterval = ini.handleBefore
    /\ timers = {cacheInterval}
====
